---------------------------- MODULE Spec2Model ----------------------------
(***************************************************************************)
(* A model of document_finder.Documents (AGSbuilder): the reconciler that  *)
(* scans a root folder for *.mxd map documents, keeps the scan cached, and *)
(* derives from it and from a publishing history the documents to publish  *)
(* and the services to un-publish.                                         *)
(*                                                                         *)
(* Encoding of Python values                                               *)
(*   None / a value        : <<>> / <<v>>            (None, Some, Val)     *)
(*   a file name           : a sequence of one-character strings           *)
(*   a path                : the sequence of its components (file names);  *)
(*                           os.path.join(p, n) appends a component        *)
(*   a (folder, mxd) pair  : [folder |-> optional name, mxd |-> path]      *)
(*   a history value       : [kind, file, entries], kind one of            *)
(*                           "None", "file" (a csv path), "list"           *)
(*   a history entry       : [path, folder, name] for the tuple            *)
(*                           (source_path, service_folder, service_name)   *)
(***************************************************************************)
EXTENDS Integers, Sequences, FiniteSets, TLC

VARIABLES
    pc,               \* "new" before Documents(...) has run, "ready" after
    settings,         \* self.__settings
    path,             \* self.__path
    history,          \* self.__history
    filesystem_mxds,  \* self.__filesystem_mxds
    fs,               \* the filesystem (environment)
    fsAtScan,         \* the filesystem as it stood when the path last changed
    historySource,    \* where the constructor took the history from
    op,               \* the last operation: [name, path, history] (its inputs)
    log,              \* the log records the last operation emitted
    scans,            \* how often the last operation scanned the filesystem
    queried,          \* the server urls the last operation queried
    served,           \* what the server returned to the last operation
    result,           \* the value the last operation returned
    raised            \* the exception the last operation raised ("" if none)

vars == <<pc, settings, path, history, filesystem_mxds, fs, fsAtScan,
          historySource, op, log, scans, queried, served, result, raised>>

(***************************************************************************)
(* Bounds of the model.                                                    *)
(***************************************************************************)
MaxHist == 2
MaxServices == 2

(***************************************************************************)
(* Python values.                                                          *)
(***************************************************************************)
None == <<>>
Some(v) == <<v>>
Val(o) == o[1]

\* str.lower() on one character.
UpperChars == <<"A","B","C","D","E","F","G","H","I","J","K","L","M",
                "N","O","P","Q","R","S","T","U","V","W","X","Y","Z">>
LowerChars == <<"a","b","c","d","e","f","g","h","i","j","k","l","m",
                "n","o","p","q","r","s","t","u","v","w","x","y","z">>
LowerChar(c) ==
    IF \E i \in 1..26 : UpperChars[i] = c
    THEN LowerChars[CHOOSE i \in 1..26 : UpperChars[i] = c]
    ELSE c
StrLower(s) == [i \in 1..Len(s) |-> LowerChar(s[i])]

\* s.rfind(c), 1-based; 0 when c does not occur.
RFind(s, c) ==
    IF \E i \in 1..Len(s) : s[i] = c
    THEN CHOOSE i \in 1..Len(s) : s[i] = c /\ \A j \in (i+1)..Len(s) : s[j] # c
    ELSE 0

\* os.path.splitext(name)[1] for a name without separators: the text from
\* the last dot on, provided some character before that dot is not a dot.
SplitExt(name) ==
    LET dotIndex == RFind(name, ".")
    IN  IF dotIndex > 0 /\ \E i \in 1..(dotIndex - 1) : name[i] # "."
        THEN SubSeq(name, dotIndex, Len(name))
        ELSE <<>>

DotMxd == <<".", "m", "x", "d">>

\* os.path.join(folder, name)
Join(folder, name) == Append(folder, name)

(***************************************************************************)
(* The filesystem: dirs maps each directory to its os.listdir, files is    *)
(* the set of regular files.                                               *)
(***************************************************************************)
IsDir(f, p) == p \in DOMAIN f.dirs
IsFile(f, p) == p \in f.files
ListDir(f, p) == f.dirs[p]

n_root == <<"r">>
n_a == <<"a", ".", "m", "x", "d">>
n_b == <<"b", ".", "M", "X", "D">>
n_c == <<"c", ".", "t", "x", "t">>
n_d == <<"d", ".", "m", "x", "d">>
n_e == <<"e", ".", "m", "x", "d">>
n_f == <<"f", ".", "M", "x", "d">>
n_g == <<"g", ".", "m", "x", "d">>
n_dot == <<".", "m", "x", "d">>
n_w == <<"w", ".", "m", "x", "d">>
n_Sub == <<"S", "u", "b">>
n_Deep == <<"D", "e", "e", "p">>

Root == <<n_root>>
SubDir == <<n_root, n_Sub>>
DeepDir == <<n_root, n_Sub, n_Deep>>
WDir == <<n_root, n_w>>
p_a == <<n_root, n_a>>
p_d == <<n_root, n_Sub, n_d>>
p_g == <<n_root, n_g>>

\* An empty root directory.
FsEmpty ==
    [dirs |-> (Root :> <<>>), files |-> {}]
\* a.mxd, b.MXD, c.txt, a file named ".mxd" and a directory named w.mxd in
\* the root; d.mxd one level down; e.mxd two levels down.
FsTree ==
    [dirs |-> (Root :> <<n_a, n_Sub, n_b, n_c, n_w, n_dot>>)
              @@ (SubDir :> <<n_Deep, n_d>>)
              @@ (DeepDir :> <<n_e>>)
              @@ (WDir :> <<n_f>>),
     files |-> {p_a, <<n_root, n_b>>, <<n_root, n_c>>, <<n_root, n_dot>>,
                p_d, <<n_root, n_Sub, n_Deep, n_e>>, <<n_root, n_w, n_f>>}]
\* Only a.mxd, beside an empty sub-folder.
FsOne ==
    [dirs |-> (Root :> <<n_Sub, n_a>>) @@ (SubDir :> <<>>),
     files |-> {p_a}]
\* No document the extension filter accepts, at any depth the scan reaches.
FsNoDocs ==
    [dirs |-> (Root :> <<n_c, n_Sub>>) @@ (SubDir :> <<n_Deep>>)
              @@ (DeepDir :> <<n_e>>),
     files |-> {<<n_root, n_c>>, <<n_root, n_Sub, n_Deep, n_e>>}]

FileSystems == {FsEmpty, FsTree, FsOne, FsNoDocs}

\* The values a caller passes as path.
PathValues == {None, Some(Root), Some(SubDir), Some(p_a)}

(***************************************************************************)
(* Documents.__find_mxds_in_folder and Documents.__get_filesystem_mxds     *)
(***************************************************************************)
\* A scan that compares the extension without lower-casing it.
FindMxdsCaseSensitive(f, folder) ==
    LET names == ListDir(f, folder)
        mxds == SelectSeq(names, LAMBDA name : SplitExt(name) = DotMxd)
        paths == [i \in 1..Len(mxds) |-> Join(folder, mxds[i])]
    IN  SelectSeq(paths, LAMBDA p : IsFile(f, p))

FindMxdsInFolder(f, folder) ==
    LET names == ListDir(f, folder)
        mxds == SelectSeq(names, LAMBDA name : StrLower(SplitExt(name)) = DotMxd)
        paths == [i \in 1..Len(mxds) |-> Join(folder, mxds[i])]
    IN  SelectSeq(paths, LAMBDA p : IsFile(f, p))

RECURSIVE ScanFolders(_, _, _)
ScanFolders(f, root, folders) ==
    IF folders = <<>> THEN <<>>
    ELSE LET folder == Head(folders)
             found == FindMxdsInFolder(f, Join(root, folder))
         IN  [i \in 1..Len(found) |-> [folder |-> Some(folder), mxd |-> found[i]]]
             \o ScanFolders(f, root, Tail(folders))

GetFilesystemMxds(f, p) ==
    IF p # None /\ IsDir(f, Val(p))
    THEN LET top == FindMxdsInFolder(f, Val(p))
             folders == SelectSeq(ListDir(f, Val(p)),
                                  LAMBDA name : IsDir(f, Join(Val(p), name)))
         IN  [i \in 1..Len(top) |-> [folder |-> None, mxd |-> top[i]]]
             \o ScanFolders(f, Val(p), folders)
    ELSE <<>>


(***************************************************************************)
(* History values, history entries, services, Doc and the settings object. *)
(***************************************************************************)
HNone == [kind |-> "None", file |-> "", entries |-> <<>>]
HFile(name) == [kind |-> "file", file |-> name, entries |-> <<>>]
HList(entries) == [kind |-> "list", file |-> "", entries |-> entries]

Entry(p, folder, name) == [path |-> p, folder |-> folder, name |-> name]

\* publishable_doc.Doc(path, folder=folder, config=config): the document is
\* identified with the arguments it was constructed from.
Doc(p, folder, config) == [path |-> p, folder |-> folder, config |-> config]

LogRec(level, msg) == [level |-> level, msg |-> msg]

\* An attribute of the settings object: absent, or present with a value.
NoAttr == [has |-> FALSE, val |-> None]
NoHistAttr == [has |-> FALSE, val |-> HNone]
Attr(v) == [has |-> TRUE, val |-> v]

\* settings=None: every attribute access raises AttributeError.
SNone ==
    [isNone |-> TRUE, root_directory |-> NoAttr, history_file |-> NoHistAttr,
     server_url |-> NoAttr, server |-> NoAttr]
Settings(rd, hf, su, sv) ==
    [isNone |-> FALSE, root_directory |-> rd, history_file |-> hf,
     server_url |-> su, server |-> sv]

Url == "http://gis/arcgis"
GoodAgs == "good.ags"
BadAgs == "bad.ags"
HistCsv == "history.csv"

\* util.get_service_url_from_ags_file(conn_file): the url found in the
\* connection file, None when there is none (no file named, or no url in it).
AgsUrl(conn_file) ==
    IF conn_file = Some(GoodAgs) THEN Some(Url) ELSE None

AllSettings ==
    {SNone} \cup
    { Settings(rd, hf, su, sv) :
        rd \in {NoAttr, Attr(None), Attr(Some(Root))},
        hf \in {NoHistAttr, Attr(HNone), Attr(HFile(HistCsv))},
        su \in {NoAttr, Attr(None), Attr(Some(Url))},
        sv \in {NoAttr, Attr(Some(GoodAgs)), Attr(Some(BadAgs))} }

\* The settings the long-running specification constructs the object with.
SomeSettings ==
    { SNone,
      Settings(NoAttr, NoHistAttr, Attr(Some(Url)), NoAttr) }

\* The history entries and histories a caller passes.
Entries ==
    { Entry(Some(p_a), None, "svcA"),
      Entry(Some(p_g), Some(n_Sub), "svcB") }

SeqsUpTo(S, n) == UNION { [1..k -> S] : k \in 0..n }

HistoryValues ==
    {HNone, HFile(HistCsv)} \cup { HList(es) : es \in SeqsUpTo(Entries, MaxHist) }

\* What util.get_services_from_server may return: (folder, name) pairs.
Services ==
    { [folder |-> None, name |-> "svcA"], [folder |-> Some(n_Sub), name |-> "svcD"] }
ServiceLists == SeqsUpTo(Services, MaxServices)

(***************************************************************************)
(* The setters.                                                            *)
(***************************************************************************)
\* A path setter without the equality guard.
SetPathAlways(curPath, curMxds, new_value, f) ==
    [path |-> new_value,
     mxds |-> GetFilesystemMxds(f, new_value),
     log |-> <<LogRec("DEBUG", "setting path")>>,
     scans |-> 1]

\* A path setter that stores the new path and keeps the cached scan.
SetPathNoRescan(curPath, curMxds, new_value, f) ==
    IF new_value = curPath
    THEN [path |-> curPath, mxds |-> curMxds, log |-> <<>>, scans |-> 0]
    ELSE [path |-> new_value, mxds |-> curMxds,
          log |-> <<LogRec("DEBUG", "setting path")>>, scans |-> 0]

\* Documents.path (setter), on the current path and cached scan.
SetPathOp(curPath, curMxds, new_value, f) ==
    IF new_value = curPath
    THEN [path |-> curPath, mxds |-> curMxds, log |-> <<>>, scans |-> 0]
    ELSE [path |-> new_value,
          mxds |-> GetFilesystemMxds(f, new_value),
          log |-> <<LogRec("DEBUG", "setting path")>>,
          scans |-> 1]

\* Documents.history (setter)
SetHistoryOp(curHistory, new_value) ==
    IF new_value = curHistory
    THEN [history |-> curHistory, log |-> <<>>]
    ELSE [history |-> new_value, log |-> <<LogRec("DEBUG", "setting history")>>]

(***************************************************************************)
(* The two derived properties.                                             *)
(***************************************************************************)
\* A publish list that forgets the folder of each document.
ItemsToPublishNoFolder(mxds, s) ==
    [docs |-> [i \in 1..Len(mxds) |-> Doc(Some(mxds[i].mxd), None, s)],
     log |-> <<LogRec("DEBUG", "documents to publish")>>,
     raised |-> ""]

\* Documents.items_to_publish
ItemsToPublishOp(mxds, s) ==
    [docs |-> [i \in 1..Len(mxds) |-> Doc(Some(mxds[i].mxd), mxds[i].folder, s)],
     log |-> <<LogRec("DEBUG", "documents to publish")>>,
     raised |-> ""]

\* A loop that keeps the entries whose source is still in the scan.
RECURSIVE UnpublishLoopInverted(_, _, _)
UnpublishLoopInverted(entries, source_paths, s) ==
    IF entries = <<>> THEN <<>>
    ELSE LET e == Head(entries)
             rest == UnpublishLoopInverted(Tail(entries), source_paths, s)
         IN  IF e.path \in source_paths
             THEN <<Doc(e.path, e.folder, s)>> \o rest
             ELSE rest

\* A loop that passes over the entries without a source path.
RECURSIVE UnpublishLoopSkipNone(_, _, _)
UnpublishLoopSkipNone(entries, source_paths, s) ==
    IF entries = <<>> THEN <<>>
    ELSE LET e == Head(entries)
             rest == UnpublishLoopSkipNone(Tail(entries), source_paths, s)
         IN  IF e.path # None /\ e.path \notin source_paths
             THEN <<Doc(e.path, e.folder, s)>> \o rest
             ELSE rest

RECURSIVE UnpublishLoop(_, _, _)
UnpublishLoop(entries, source_paths, s) ==
    IF entries = <<>> THEN <<>>
    ELSE LET e == Head(entries)
             rest == UnpublishLoop(Tail(entries), source_paths, s)
         IN  IF e.path \notin source_paths
             THEN <<Doc(e.path, e.folder, s)>> \o rest
             ELSE rest

\* The body of items_to_unpublish after its two early returns. A history
\* that is a csv path is a string: the loop draws its characters, and
\* unpacking one into (path, folder, name) raises ValueError.
UnpublishDiff(hist, mxds, s) ==
    IF hist.kind = "file" /\ hist.file # ""
    THEN [docs |-> <<>>, log |-> <<>>, raised |-> "ValueError"]
    ELSE LET source_paths == { Some(mxds[i].mxd) : i \in 1..Len(mxds) }
         IN  [docs |-> UnpublishLoop(hist.entries, source_paths, s),
              log |-> <<LogRec("DEBUG", "documents to UN-publish")>>,
              raised |-> ""]

\* items_to_unpublish without the empty-scan guard.
ItemsToUnpublishNoGuard(hist, mxds, s) ==
    IF hist = HNone
    THEN [docs |-> <<>>, log |-> <<>>, raised |-> ""]
    ELSE UnpublishDiff(hist, mxds, s)

\* items_to_unpublish with a guard that says nothing.
ItemsToUnpublishSilent(hist, mxds, s) ==
    IF hist = HNone \/ Len(mxds) = 0
    THEN [docs |-> <<>>, log |-> <<>>, raised |-> ""]
    ELSE UnpublishDiff(hist, mxds, s)

\* Documents.items_to_unpublish
ItemsToUnpublishOp(hist, mxds, s) ==
    IF hist = HNone
    THEN [docs |-> <<>>, log |-> <<>>, raised |-> ""]
    ELSE IF Len(mxds) = 0
    THEN [docs |-> <<>>, log |-> <<LogRec("WARNING", "no mxd files found")>>,
          raised |-> ""]
    ELSE UnpublishDiff(hist, mxds, s)

(***************************************************************************)
(* Documents.__get_history_from_server; services is what the server        *)
(* answers when it is queried.                                             *)
(***************************************************************************)
\* A fetch that never looks at the connection file.
GetHistoryNoConnFile(s, services) ==
    LET hasUrl == ~s.isNone /\ s.server_url.has
        server == IF hasUrl THEN s.server_url.val ELSE None
    IN  IF server = None
        THEN [value |-> HNone,
              log |-> <<LogRec("INFO", "unable to get services")>>,
              queried |-> <<>>, served |-> <<>>]
        ELSE [value |-> HList([i \in 1..Len(services) |->
                                 Entry(None, services[i].folder, services[i].name)]),
              log |-> <<LogRec("DEBUG", "found services")>>,
              queried |-> <<Val(server)>>, served |-> services]

GetHistoryFromServer(s, services) ==
    LET hasUrl == ~s.isNone /\ s.server_url.has
        server1 == IF hasUrl THEN s.server_url.val ELSE None
        log1 == IF hasUrl THEN <<>> ELSE <<LogRec("INFO", "server_url not defined")>>
        hasConn == ~s.isNone /\ s.server.has
        conn_file == IF hasConn THEN s.server.val ELSE None
        server == IF server1 = None THEN AgsUrl(conn_file) ELSE server1
        log2 == IF server1 = None /\ ~hasConn
                THEN <<LogRec("INFO", "server not defined")>> ELSE <<>>
    IN  IF server = None
        THEN [value |-> HNone,
              log |-> log1 \o log2 \o <<LogRec("INFO", "unable to get services")>>,
              queried |-> <<>>, served |-> <<>>]
        ELSE [value |-> HList([i \in 1..Len(services) |->
                                 Entry(None, services[i].folder, services[i].name)]),
              log |-> log1 \o log2 \o <<LogRec("DEBUG", "found services")>>,
              queried |-> <<Val(server)>>, served |-> services]

(***************************************************************************)
(* Documents.__init__: the value each setter is handed.                    *)
(***************************************************************************)
\* A constructor that prefers settings.root_directory to its argument.
InitPathSettingsFirst(pathArg, s) ==
    IF ~s.isNone /\ s.root_directory.has THEN s.root_directory.val
    ELSE pathArg

InitPath(pathArg, s) ==
    IF pathArg # None THEN pathArg
    ELSE IF ~s.isNone /\ s.root_directory.has THEN s.root_directory.val
    ELSE None

InitHistory(histArg, s, services) ==
    IF histArg # HNone
    THEN [value |-> histArg, source |-> "argument", log |-> <<>>,
          queried |-> <<>>, served |-> <<>>]
    ELSE IF ~s.isNone /\ s.history_file.has
    THEN [value |-> s.history_file.val, source |-> "settings", log |-> <<>>,
          queried |-> <<>>, served |-> <<>>]
    ELSE LET r == GetHistoryFromServer(s, services)
         IN  [value |-> r.value, source |-> "server", log |-> r.log,
              queried |-> r.queried, served |-> r.served]

(***************************************************************************)
(* The state machine.                                                      *)
(***************************************************************************)
NoOp == [name |-> "none", path |-> None, history |-> HNone, settings |-> SNone]

Init ==
    /\ pc = "new"
    /\ settings = SNone
    /\ path = None
    /\ history = HNone
    /\ filesystem_mxds = <<>>
    /\ fs \in FileSystems
    /\ fsAtScan = fs
    /\ historySource = "none"
    /\ op = NoOp
    /\ log = <<>>
    /\ scans = 0
    /\ queried = <<>>
    /\ served = <<>>
    /\ result = <<>>
    /\ raised = ""

\* docs = Documents(path=pathArg, history=histArg, settings=s)
Construct(pathArg, histArg, s, services) ==
    /\ pc = "new"
    /\ LET p == SetPathOp(None, <<>>, InitPath(pathArg, s), fs)
           h == InitHistory(histArg, s, services)
           v == SetHistoryOp(HNone, h.value)
       IN  /\ path' = p.path
           /\ filesystem_mxds' = p.mxds
           /\ history' = v.history
           /\ historySource' = h.source
           /\ log' = p.log \o h.log \o v.log
           /\ scans' = p.scans
           /\ queried' = h.queried
           /\ served' = h.served
    /\ pc' = "ready"
    /\ settings' = s
    /\ fsAtScan' = fs
    /\ op' = [name |-> "construct", path |-> pathArg, history |-> histArg,
              settings |-> s]
    /\ result' = <<>>
    /\ raised' = ""
    /\ UNCHANGED fs

\* docs.path = new_value
SetPath(new_value) ==
    /\ pc = "ready"
    /\ LET p == SetPathOp(path, filesystem_mxds, new_value, fs)
       IN  /\ path' = p.path
           /\ filesystem_mxds' = p.mxds
           /\ log' = p.log
           /\ scans' = p.scans
           /\ fsAtScan' = IF p.scans > 0 THEN fs ELSE fsAtScan
    /\ op' = [name |-> "set_path", path |-> new_value, history |-> HNone,
              settings |-> SNone]
    /\ queried' = <<>>
    /\ served' = <<>>
    /\ result' = <<>>
    /\ raised' = ""
    /\ UNCHANGED <<pc, settings, history, historySource, fs>>

\* docs.history = new_value
SetHistory(new_value) ==
    /\ pc = "ready"
    /\ LET v == SetHistoryOp(history, new_value)
       IN  /\ history' = v.history
           /\ log' = v.log
           /\ historySource' = IF v.history = history THEN historySource
                               ELSE "assigned"
    /\ op' = [name |-> "set_history", path |-> None, history |-> new_value,
              settings |-> SNone]
    /\ scans' = 0
    /\ queried' = <<>>
    /\ served' = <<>>
    /\ result' = <<>>
    /\ raised' = ""
    /\ UNCHANGED <<pc, settings, path, filesystem_mxds, fs, fsAtScan>>

\* docs.items_to_publish
ItemsToPublish ==
    /\ pc = "ready"
    /\ LET r == ItemsToPublishOp(filesystem_mxds, settings)
       IN  /\ result' = r.docs
           /\ log' = r.log
           /\ raised' = r.raised
    /\ op' = [name |-> "items_to_publish", path |-> None, history |-> HNone,
              settings |-> SNone]
    /\ scans' = 0
    /\ queried' = <<>>
    /\ served' = <<>>
    /\ UNCHANGED <<pc, settings, path, history, filesystem_mxds, fs, fsAtScan,
                   historySource>>

\* docs.items_to_unpublish
ItemsToUnpublish ==
    /\ pc = "ready"
    /\ LET r == ItemsToUnpublishOp(history, filesystem_mxds, settings)
       IN  /\ result' = r.docs
           /\ log' = r.log
           /\ raised' = r.raised
    /\ op' = [name |-> "items_to_unpublish", path |-> None, history |-> HNone,
              settings |-> SNone]
    /\ scans' = 0
    /\ queried' = <<>>
    /\ served' = <<>>
    /\ UNCHANGED <<pc, settings, path, history, filesystem_mxds, fs, fsAtScan,
                   historySource>>

\* The environment changes the directory tree behind the object's back.
FsChange(f) ==
    /\ pc = "ready"
    /\ f # fs
    /\ fs' = f
    /\ op' = [name |-> "fs_change", path |-> None, history |-> HNone,
              settings |-> SNone]
    /\ log' = <<>>
    /\ scans' = 0
    /\ queried' = <<>>
    /\ served' = <<>>
    /\ result' = <<>>
    /\ raised' = ""
    /\ UNCHANGED <<pc, settings, path, history, filesystem_mxds, fsAtScan,
                   historySource>>

ConstructSome ==
    \E pathArg \in PathValues, histArg \in HistoryValues, s \in SomeSettings,
       services \in ServiceLists :
        Construct(pathArg, histArg, s, services)

ConstructAll ==
    \E pathArg \in {None, Some(Root), Some(SubDir)},
       histArg \in {HNone, HFile(HistCsv), HList(<<Entry(Some(p_g), None, "svcB")>>)},
       s \in AllSettings, services \in ServiceLists :
        Construct(pathArg, histArg, s, services)

AssignPath == \E new_value \in PathValues : SetPath(new_value)
AssignHistory == \E new_value \in HistoryValues : SetHistory(new_value)
ChangeFilesystem == \E f \in FileSystems : FsChange(f)

Next ==
    \/ ConstructSome
    \/ AssignPath
    \/ AssignHistory
    \/ ItemsToPublish
    \/ ItemsToUnpublish
    \/ ChangeFilesystem

Spec == Init /\ [][Next]_vars

\* Construction under every shape of the settings object, then the reads.
NextInit ==
    \/ ConstructAll
    \/ ItemsToPublish
    \/ ItemsToUnpublish

SpecInit == Init /\ [][NextInit]_vars

(***************************************************************************)
(* Properties.                                                             *)
(***************************************************************************)
Warning == LogRec("WARNING", "no mxd files found")
InLog(rec) == \E i \in 1..Len(log) : log[i] = rec
ScannedPaths == { filesystem_mxds[i].mxd : i \in 1..Len(filesystem_mxds) }
E_a == Entry(Some(p_a), None, "svcA")
E_g == Entry(Some(p_g), Some(n_Sub), "svcB")

\* C1: items_to_unpublish is non-empty only if the history is not None and
\* the cached scan is non-empty; with no history it returns empty, and with
\* a scan of zero documents it returns empty whatever the history holds.
C1_UnpublishGuard ==
    op.name = "items_to_unpublish" =>
        /\ result # <<>> => (history # HNone /\ filesystem_mxds # <<>>)
        /\ history = HNone => (result = <<>> /\ raised = "")
        /\ filesystem_mxds = <<>> => (result = <<>> /\ raised = "")

\* items_to_unpublish was read with a history of two entries over an empty
\* scan.
C1_Witness ==
    /\ op.name = "items_to_unpublish"
    /\ filesystem_mxds = <<>>
    /\ history = HList(<<E_a, E_g>>)
    /\ result = <<>>

\* C2: with a list history and a non-empty scan, items_to_unpublish returns
\* exactly one Doc, in history order, for each entry whose source path is not
\* among the scanned paths, built from the entry's path and folder and the
\* settings; for the history [E_a, E_g] over a scan that finds only a.mxd
\* the result is the one document of E_g.
C2_UnpublishDiff ==
    (op.name = "items_to_unpublish" /\ history.kind = "list"
        /\ filesystem_mxds # <<>>) =>
        LET gone == SelectSeq(history.entries,
                        LAMBDA e : e.path = None \/ Val(e.path) \notin ScannedPaths)
        IN  /\ raised = ""
            /\ Len(result) = Len(gone)
            /\ \A i \in 1..Len(gone) :
                   /\ result[i].path = gone[i].path
                   /\ result[i].folder = gone[i].folder
                   /\ result[i].config = settings
            /\ \A i \in 1..Len(result) :
                   result[i].path = None \/ Val(result[i].path) \notin ScannedPaths
            /\ (history = HList(<<E_a, E_g>>) /\ ScannedPaths = {p_a}) =>
                   result = <<Doc(Some(p_g), Some(n_Sub), settings)>>

\* The history [E_a, E_g] was diffed against a scan that found only a.mxd.
C2_Witness ==
    /\ op.name = "items_to_unpublish"
    /\ history = HList(<<E_a, E_g>>)
    /\ ScannedPaths = {p_a}
    /\ Len(result) = 1

\* The root directory was an empty directory when it was scanned.
EmptyRoot ==
    /\ pc = "ready"
    /\ path # None
    /\ IsDir(fsAtScan, Val(path))
    /\ ListDir(fsAtScan, Val(path)) = <<>>

\* C3 as stated: for an empty root directory items_to_publish is empty and
\* items_to_unpublish returns empty and logs a warning, for every value of
\* the history.
C3_AsStated ==
    EmptyRoot =>
        /\ op.name = "items_to_publish" => result = <<>>
        /\ op.name = "items_to_unpublish" => (result = <<>> /\ InLog(Warning))

\* C3, amended: for an empty root directory items_to_publish is empty and
\* items_to_unpublish returns empty; it logs the warning exactly when the
\* history is not None (with no history it returns before the scan is
\* looked at, and logs nothing).
C3_EmptyRoot ==
    EmptyRoot =>
        /\ op.name = "items_to_publish" => result = <<>>
        /\ op.name = "items_to_unpublish" =>
              /\ result = <<>>
              /\ raised = ""
              /\ history # HNone => log = <<Warning>>
              /\ history = HNone => log = <<>>

\* items_to_unpublish was read over an empty root with a history at hand.
C3_Witness ==
    /\ EmptyRoot
    /\ op.name = "items_to_unpublish"
    /\ history = HList(<<E_a>>)
    /\ InLog(Warning)

\* The name ends in .mxd in any mix of cases, after a stem that is not made
\* of dots alone.
HasMxdExtension(name) ==
    LET n == Len(name)
    IN  /\ n >= 5
        /\ name[n - 3] = "."
        /\ name[n - 2] \in {"m", "M"}
        /\ name[n - 1] \in {"x", "X"}
        /\ name[n] \in {"d", "D"}
        /\ \E i \in 1..(n - 4) : name[i] # "."

Names(f, dir) == { ListDir(f, dir)[i] : i \in 1..Len(ListDir(f, dir)) }

DocumentsIn(f, dir) ==
    { Join(dir, name) : name \in { n \in Names(f, dir) :
                                     HasMxdExtension(n) /\ IsFile(f, Join(dir, n)) } }

ExpectedScan(f, root) ==
    { [folder |-> None, mxd |-> m] : m \in DocumentsIn(f, root) }
    \cup UNION { { [folder |-> Some(d), mxd |-> m] : m \in DocumentsIn(f, Join(root, d)) }
                 : d \in { n \in Names(f, root) : IsDir(f, Join(root, n)) } }

\* C4: a scan returns exactly (None, path) for every real file in the root
\* whose extension is .mxd in any case, then (folder, path) for every such
\* file in each immediate sub-directory; nothing deeper, no other extension,
\* no directory; and nothing when the path is None or not a directory.
C4_Scan ==
    (op.name \in {"construct", "set_path"} /\ scans = 1) =>
        LET m == filesystem_mxds
        IN  /\ (path = None \/ ~IsDir(fs, Val(path))) => m = <<>>
            /\ (path # None /\ IsDir(fs, Val(path))) =>
                  /\ { m[i] : i \in 1..Len(m) } = ExpectedScan(fs, Val(path))
                  /\ Len(m) = Cardinality(ExpectedScan(fs, Val(path)))
                  /\ \A i, j \in 1..Len(m) :
                         (i < j /\ m[j].folder = None) => m[i].folder = None
            /\ (path = Some(Root) /\ fs = FsTree) =>
                  /\ ScannedPaths = {p_a, <<n_root, n_b>>, p_d, <<n_root, n_w, n_f>>}
                  /\ <<n_root, n_Sub, n_Deep, n_e>> \notin ScannedPaths
                  /\ <<n_root, n_c>> \notin ScannedPaths
                  /\ WDir \notin ScannedPaths

\* The tree with a.mxd, b.MXD, c.txt, Sub/d.mxd and Sub/Deep/e.mxd was
\* scanned from its root.
C4_Witness ==
    /\ op.name \in {"construct", "set_path"}
    /\ scans = 1
    /\ path = Some(Root)
    /\ fs = FsTree
    /\ Len(filesystem_mxds) = 4

\* C5: setting path to its current value changes neither the path, the
\* cached scan nor the history, scans nothing and logs nothing, whatever
\* the filesystem holds by then.
C5_SetSamePath ==
    [][(op'.name = "set_path" /\ op'.path = path) =>
          /\ UNCHANGED <<path, filesystem_mxds, history>>
          /\ scans' = 0
          /\ log' = <<>>]_vars

\* The path was assigned its current value after the filesystem had changed
\* under the cached scan.
C5_Witness ==
    /\ op.name = "set_path"
    /\ op.path = path
    /\ scans = 0
    /\ path # None
    /\ filesystem_mxds # GetFilesystemMxds(fs, path)

HasRootDirectory(s) == ~s.isNone /\ s.root_directory.has
HasHistoryFile(s) == ~s.isNone /\ s.history_file.has
FromServices(services) ==
    HList([i \in 1..Len(services) |->
             Entry(None, services[i].folder, services[i].name)])

\* C6: after construction the path is the argument when that is not None,
\* else settings.root_directory when the attribute exists, else None; the
\* history is the argument when that is not None, else settings.history_file
\* when the attribute exists, else what the server fetch returned; the
\* server is queried only in the last case, and no missing attribute (nor a
\* settings of None) makes the constructor raise.
C6_Resolution ==
    op.name = "construct" =>
        LET s == op.settings
        IN  /\ pc = "ready" /\ raised = "" /\ settings = s
            /\ op.path # None => path = op.path
            /\ (op.path = None /\ HasRootDirectory(s)) => path = s.root_directory.val
            /\ (op.path = None /\ ~HasRootDirectory(s)) => path = None
            /\ op.history # HNone =>
                  (history = op.history /\ queried = <<>>)
            /\ (op.history = HNone /\ HasHistoryFile(s)) =>
                  (history = s.history_file.val /\ queried = <<>>)
            /\ (op.history = HNone /\ ~HasHistoryFile(s)) =>
                  /\ historySource = "server"
                  /\ queried = <<>> => history = HNone
                  /\ queried # <<>> => history = FromServices(served)

\* The object was constructed without arguments from settings that carry
\* both a root directory and a history file.
C6_Witness ==
    /\ op.name = "construct"
    /\ op.path = None
    /\ op.history = HNone
    /\ HasRootDirectory(op.settings)
    /\ HasHistoryFile(op.settings)
    /\ path = Some(Root)
    /\ history = HFile(HistCsv)

\* The url the fetch is to use: settings.server_url, or, when that is absent
\* or None, the url of the connection file settings.server names.
ResolvedUrl(s) ==
    IF ~s.isNone /\ s.server_url.has /\ s.server_url.val # None
    THEN s.server_url.val
    ELSE IF ~s.isNone /\ s.server.has
    THEN AgsUrl(s.server.val)
    ELSE None

\* C7: the server fetch takes the url from settings.server_url or, when that
\* is absent or None, from the connection file settings.server names; with
\* no url it returns None without raising or querying; otherwise it queries
\* the server once and returns one (None, folder, name) per service, in the
\* server's order.
C7_ServerFetch ==
    (op.name = "construct" /\ historySource = "server") =>
        LET url == ResolvedUrl(op.settings)
        IN  /\ raised = ""
            /\ url = None =>
                  /\ history = HNone
                  /\ queried = <<>>
                  /\ InLog(LogRec("INFO", "unable to get services"))
            /\ url # None =>
                  /\ queried = <<Val(url)>>
                  /\ history.kind = "list"
                  /\ Len(history.entries) = Len(served)
                  /\ \A i \in 1..Len(served) :
                         history.entries[i] =
                             Entry(None, served[i].folder, served[i].name)

\* The history was fetched through the connection file, server_url being
\* None, and the server listed two services.
C7_Witness ==
    /\ op.name = "construct"
    /\ historySource = "server"
    /\ op.settings.server_url = Attr(None)
    /\ op.settings.server = Attr(Some(GoodAgs))
    /\ queried = <<Url>>
    /\ Len(history.entries) = 2

\* C8: items_to_publish returns one Doc per pair of the cached scan, in scan
\* order, built from the pair's path and folder and the settings, whatever
\* the history; reading it changes neither path, history nor cached scan.
C8_Publish ==
    /\ [](op.name = "items_to_publish" =>
            /\ raised = ""
            /\ Len(result) = Len(filesystem_mxds)
            /\ \A i \in 1..Len(result) :
                   /\ result[i].path = Some(filesystem_mxds[i].mxd)
                   /\ result[i].folder = filesystem_mxds[i].folder
                   /\ result[i].config = settings)
    /\ [][op'.name = "items_to_publish" =>
            UNCHANGED <<path, history, filesystem_mxds, settings>>]_vars

\* Four scanned documents were listed for publishing although the history
\* already names one of them.
C8_Witness ==
    /\ op.name = "items_to_publish"
    /\ Len(result) = 4
    /\ history = HList(<<E_a>>)
    /\ \E i \in 1..Len(result) : result[i].folder = Some(n_Sub)

\* C9: when every history entry has source path None (a history fetched
\* from the server) and the scan is non-empty, items_to_unpublish returns a
\* Doc for every entry of the history, also for a service whose map document
\* is in the scan.
C9_ServerHistoryAllListed ==
    (op.name = "items_to_unpublish" /\ history.kind = "list"
        /\ (\A i \in 1..Len(history.entries) : history.entries[i].path = None)
        /\ filesystem_mxds # <<>>) =>
        /\ raised = ""
        /\ Len(result) = Len(history.entries)
        /\ \A i \in 1..Len(result) :
               result[i] = Doc(None, history.entries[i].folder, settings)

\* The history came from the server, which lists a service in folder Sub;
\* the scan holds a document of folder Sub; items_to_unpublish was read.
C9_Witness ==
    /\ op.name = "items_to_unpublish"
    /\ historySource = "server"
    /\ \E i \in 1..Len(history.entries) : history.entries[i].folder = Some(n_Sub)
    /\ \E i \in 1..Len(filesystem_mxds) : filesystem_mxds[i].folder = Some(n_Sub)
    /\ Len(result) = Len(history.entries)

\* C10: the cached scan is the scan of the current path over the filesystem
\* as it stood when the path last changed (empty while the path is None); it
\* is replaced only by a path assignment that changes the path, which scans
\* at once; history assignments, reads and filesystem changes leave it.
C10_CachedScan ==
    /\ [](/\ filesystem_mxds = GetFilesystemMxds(fsAtScan, path)
          /\ path = None => filesystem_mxds = <<>>)
    /\ [][/\ filesystem_mxds' # filesystem_mxds =>
                (op'.name \in {"construct", "set_path"} /\ path' # path)
          /\ path' # path =>
                (scans' = 1 /\ filesystem_mxds' = GetFilesystemMxds(fs, path'))
          /\ op'.name \in {"set_history", "items_to_publish",
                           "items_to_unpublish", "fs_change"} =>
                (scans' = 0 /\ UNCHANGED <<path, filesystem_mxds>>)]_vars

\* items_to_publish was read from a cached scan that a fresh scan of the
\* same path would not reproduce.
C10_Witness ==
    /\ op.name = "items_to_publish"
    /\ path # None
    /\ filesystem_mxds # GetFilesystemMxds(fs, path)
    /\ Len(result) = Len(filesystem_mxds)

=============================================================================
